---- MODULE Spec2Model ----
(***************************************************************************)
(* Cloud cost optimizer backend: the usage store (AWSUsage), the           *)
(* recommendation store (Recommendation), the sync functions that fill the *)
(* usage store, the rule engine generateRecommendations, the implement /   *)
(* dismiss / list / sync routes, the cost estimators, the AWS client       *)
(* functions with the SDK configuration they share, and the aws-account    *)
(* routes.                                                                 *)
(*                                                                         *)
(* The engine and the lifecycle and sync routes are cut at their awaited   *)
(* store calls: the code between two awaits runs without interleaving on   *)
(* the Node event loop, so each such stretch is one action.  Requests that *)
(* wait for a store call are kept in `inflight`.  The sync functions, the  *)
(* list route and the aws-account routes are taken in one step each.       *)
(*                                                                         *)
(* Units: money is counted in 1/10000 USD (0.0104 USD/h = 104), storage    *)
(* sizes in MiB (the code's bytes / 2^30 is MiB / 1024 here), time in      *)
(* days.                                                                   *)
(***************************************************************************)
EXTENDS Integers, Sequences, FiniteSets, TLC

VARIABLES
    now,        \* the clock, in days (Date.now())
    usage,      \* the AWSUsage collection, in insertion order
    recs,       \* the Recommendation collection, in insertion order
    inflight,   \* the handlers suspended at an awaited store call
    fresh,      \* per tenant: an engine run completed and the tenant's usage
                \* in the window is still what that run read (history)
    resp,       \* what the engine run or lifecycle request that ended last answered
    awsConfig,  \* AWS.config, the SDK configuration every new client is built from
    awsAccounts \* per user: user.awsAccounts, with the next _id to hand out

vars == <<now, usage, recs, inflight, fresh, resp, awsConfig, awsAccounts>>

---------------------------------------------------------------------------
(* Bounds *)

MaxNow == 8
TickDays == 8
MaxUsage == 2
MaxRecs == 2
MaxInflight == 2
MaxAccounts == 3
MaxAccountIds == 3

---------------------------------------------------------------------------
(* Program constants *)

WindowDays == 7
CpuThreshold == 20
SizeThresholdGB == 100
MiBPerGB == 1024
DefaultHourlyCost == 1000
StandardPerGB == 230

---------------------------------------------------------------------------
(* The tenants and what their AWS accounts hold *)

Users == {"u1", "u2"}

Tenants == {<<"u1", "a1">>, <<"u2", "a2">>}

\* The account a user registered before the model starts.
AccountOf(userId) == IF userId = "u1" THEN "a1" ELSE "a2"

\* An SDK configuration without explicit keys: clients built from it go
\* through the SDK's default provider chain.
NoKey == "<default>"

NoRegion == "<undefined>"

\* The credentials argument left out or null.
NoCredentials == [null |-> TRUE]

\* The access key pair and region of an AWS account.
CredentialsOf(acct) ==
    IF acct = "a1"
    THEN [accessKeyId |-> "AKIA-1", secretAccessKey |-> "secret-1", region |-> "us-east-1"]
    ELSE [accessKeyId |-> "AKIA-2", secretAccessKey |-> "secret-2", region |-> "eu-west-1"]

\* An element of user.awsAccounts.
StoredAccount(id, credentials) ==
    [_id |-> id, accessKeyId |-> credentials.accessKeyId,
     secretAccessKey |-> credentials.secretAccessKey, region |-> credentials.region]

\* The instance describeInstances returns for an account, with its type.
InstanceOf(acct) == IF acct = "a1" THEN "i-1" ELSE "i-2"

InstanceTypeOf(acct) == IF acct = "a1" THEN "t3.micro" ELSE "x9.unlisted"

\* The bucket listBuckets returns for an account.
BucketOf(acct) == IF acct = "a1" THEN "b-1" ELSE "b-2"

\* CloudWatch answers: the hourly Average datapoints of CPUUtilization.
DatapointSets == {<<>>, <<12>>, <<10, 30>>}

\* Bucket sizes getS3BucketSize can return (100 and 250 GB).
BucketSizes == {100 * MiBPerGB, 250 * MiBPerGB}

\* The body.reason values of a dismiss request; NoReason is a missing field.
NoReason == "<undefined>"

Reasons == {NoReason, "", "not needed"}

NoUser == "<none>"

NoDate == -1

\* A usage document without metrics.cost.amount.
NoCost == -1

\* A POST /sync body without awsAccountId.
NoAccount == "<undefined>"

\* What the module the routes require as '../utils/enhancedAwsDataSync'
\* exports.
EnhancedExports ==
    {"syncEC2DataEnhanced", "syncS3DataEnhanced", "syncRDSDataEnhanced", "getRealCostData"}

\* const { name } = require(...): the export of that name, or undefined.
Required(name) == IF name \in EnhancedExports THEN "function" ELSE "undefined"

---------------------------------------------------------------------------
(* Helpers *)

RECURSIVE SumSeq(_)
SumSeq(s) == IF s = <<>> THEN 0 ELSE Head(s) + SumSeq(Tail(s))

---------------------------------------------------------------------------
(* Cost estimators *)

\* An estimator that books a running instance as a credit.
estimateEC2Credit(instanceType, isRunning) ==
    IF isRunning THEN 0 - DefaultHourlyCost ELSE 0

\* An estimator that charges every database the default rate, stopped or not.
estimateRDSAlways(instanceClass, engine, isRunning) == DefaultHourlyCost

estimateEC2Cost(instanceType, isRunning) ==
    LET baseCosts == [t \in {"t3.micro", "t3.small", "t3.medium", "m5.large", "c5.large"} |->
                        CASE t = "t3.micro" -> 104
                          [] t = "t3.small" -> 208
                          [] t = "t3.medium" -> 416
                          [] t = "m5.large" -> 960
                          [] t = "c5.large" -> 850]
    IN IF isRunning
       THEN (IF instanceType \in DOMAIN baseCosts THEN baseCosts[instanceType]
             ELSE DefaultHourlyCost)
       ELSE 0

estimateS3Cost(storageSize, storageClass) ==
    LET perGB == CASE storageClass = "Standard" -> StandardPerGB
                   [] storageClass = "S3-IA" -> 125
                   [] storageClass = "Glacier" -> 40
                   [] OTHER -> StandardPerGB
    IN (storageSize * perGB) \div MiBPerGB

estimateRDSCost(instanceClass, engine, isRunning) ==
    LET baseCosts == [c \in {"db.t3.micro", "db.t3.small", "db.m5.large"} |->
                        CASE c = "db.t3.micro" -> 170
                          [] c = "db.t3.small" -> 340
                          [] c = "db.m5.large" -> 1710]
    IN IF isRunning
       THEN (IF instanceClass \in DOMAIN baseCosts THEN baseCosts[instanceClass]
             ELSE DefaultHourlyCost)
       ELSE 0

---------------------------------------------------------------------------
(* Documents *)

\* An AWSUsage document as syncEC2Data builds it.  dataPoints and writer are
\* history fields (how many CloudWatch datapoints the average was taken
\* over, and which writer inserted the document); the schema stores neither.
EC2Usage(userId, awsAccountId, date, instance) ==
    LET cpuDataPoints == instance.Datapoints
        avgCpu == IF Len(cpuDataPoints) > 0
                  THEN SumSeq(cpuDataPoints) \div Len(cpuDataPoints)
                  ELSE 0
    IN [userId |-> userId, awsAccountId |-> awsAccountId, date |-> date,
        service |-> "EC2", resourceId |-> instance.InstanceId,
        cpuType |-> "number", cpuAverage |-> avgCpu,
        sizeType |-> "undefined", storageSize |-> 0,
        cost |-> estimateEC2Cost(instance.InstanceType, instance.State = "running"),
        instanceType |-> instance.InstanceType, storageClass |-> "",
        status |-> instance.State,
        dataPoints |-> Len(cpuDataPoints), writer |-> "syncEC2Data"]

\* An AWSUsage document as syncS3Data builds it.
S3Usage(userId, awsAccountId, date, bucketName, storageSize) ==
    [userId |-> userId, awsAccountId |-> awsAccountId, date |-> date,
     service |-> "S3", resourceId |-> bucketName,
     cpuType |-> "undefined", cpuAverage |-> 0,
     sizeType |-> "number", storageSize |-> storageSize,
     cost |-> estimateS3Cost(storageSize, "Standard"),
     instanceType |-> "", storageClass |-> "Standard",
     status |-> "active",
     dataPoints |-> 0, writer |-> "syncS3Data"]

\* An AWSUsage document as syncRDSData builds it: the average of the
\* DatabaseConnections datapoints, 0 when there is none.
RDSUsage(userId, awsAccountId, date, instance) ==
    LET connectionDataPoints == instance.Datapoints
        avgConnections == IF Len(connectionDataPoints) > 0
                          THEN SumSeq(connectionDataPoints) \div Len(connectionDataPoints)
                          ELSE 0
    IN [userId |-> userId, awsAccountId |-> awsAccountId, date |-> date,
        service |-> "RDS", resourceId |-> instance.DBInstanceIdentifier,
        cpuType |-> "undefined", cpuAverage |-> 0,
        sizeType |-> "undefined", storageSize |-> 0,
        connType |-> "number", connAverage |-> avgConnections,
        cost |-> estimateRDSCost(instance.DBInstanceClass, instance.Engine,
                                 instance.State = "available"),
        instanceType |-> instance.DBInstanceClass, storageClass |-> "",
        status |-> instance.State,
        dataPoints |-> Len(connectionDataPoints), writer |-> "syncRDSData"]

\* An AWSUsage document as syncEC2DataEnhanced builds it and the schema
\* keeps it: getEC2CloudWatchMetrics files the CPU average under the key
\* cpuutilization and the cost goes to estimatedHourlyCost, so the paths
\* metrics.cpuUtilization and metrics.cost stay absent.
EC2UsageEnhanced(userId, awsAccountId, date, instance) ==
    [EC2Usage(userId, awsAccountId, date, instance)
        EXCEPT !.cpuType = "undefined", !.cpuAverage = 0, !.cost = NoCost,
               !.writer = "syncEC2DataEnhanced"]

\* An AWSUsage document as syncS3DataEnhanced builds it and the schema keeps
\* it: the cost goes to estimatedMonthlyCost, so metrics.cost stays absent.
S3UsageEnhanced(userId, awsAccountId, date, bucketName, storageSize) ==
    [S3Usage(userId, awsAccountId, date, bucketName, storageSize)
        EXCEPT !.cost = NoCost, !.writer = "syncS3DataEnhanced"]

\* An AWSUsage document as syncRDSDataEnhanced builds it and the schema
\* keeps it: the cost goes to estimatedHourlyCost, so metrics.cost stays
\* absent.
RDSUsageEnhanced(userId, awsAccountId, date, instance) ==
    [RDSUsage(userId, awsAccountId, date, instance)
        EXCEPT !.cost = NoCost, !.writer = "syncRDSDataEnhanced"]

\* Schema validation of the documents of an insertMany: metrics.cost.amount
\* is required, and one invalid document rejects the call.
InsertManyThrows(docs) == \E i \in 1..Len(docs) : docs[i].cost = NoCost

\* AWSUsage.insertMany: the documents get their _id and go to the collection.
RECURSIVE InsertUsage(_, _)
InsertUsage(coll, docs) ==
    IF docs = <<>> THEN coll
    ELSE InsertUsage(Append(coll, [_id |-> Len(coll) + 1] @@ Head(docs)), Tail(docs))

\* A new Recommendation document with the schema's defaults: userId and
\* awsAccountId are the arguments of generateRecommendations, the rest comes
\* from the usage record u.
NewRecommendation(userId, awsAccountId, u, recommendationType, savings, percentage, priority) ==
    [userId |-> userId, awsAccountId |-> awsAccountId,
     resourceId |-> u.resourceId, service |-> u.service,
     recommendationType |-> recommendationType,
     currentCost |-> u.cost,
     estimatedSavings |-> savings, percentage |-> percentage,
     priority |-> priority, riskLevel |-> "low",
     status |-> "pending",
     implementedAt |-> NoDate, implementedBy |-> NoUser,
     dismissedAt |-> NoDate, dismissedBy |-> NoUser,
     dismissalReason |-> NoReason,
     usageId |-> u._id]

\* An insertMany that also puts the documents already stored back to pending.
ResetAndInsert(coll, docs) ==
    [k \in 1..Len(coll) |-> [coll[k] EXCEPT !.status = "pending"]]
        \o [k \in 1..Len(docs) |-> [_id |-> Len(coll) + k] @@ docs[k]]

\* Recommendation.insertMany.
RECURSIVE InsertRecommendations(_, _)
InsertRecommendations(coll, docs) ==
    IF docs = <<>> THEN coll
    ELSE InsertRecommendations(Append(coll, [_id |-> Len(coll) + 1] @@ Head(docs)),
                               Tail(docs))

---------------------------------------------------------------------------
(* The rule engine *)

\* JavaScript's value < n for a stored Number field: null converts to 0,
\* undefined to NaN, and every comparison with NaN is false.
JsLessThan(type, value, n) ==
    CASE type = "number" -> value < n
      [] type = "null" -> 0 < n
      [] OTHER -> FALSE

\* A find that filters on the date alone.
RecentUsageOfAll(coll, userId, awsAccountId, at) ==
    SelectSeq(coll, LAMBDA u : u.date >= at - WindowDays)

\* AWSUsage.find({userId, awsAccountId, date: {$gte: now - 7 days}}).
RecentUsage(coll, userId, awsAccountId, at) ==
    SelectSeq(coll, LAMBDA u : /\ u.userId = userId
                               /\ u.awsAccountId = awsAccountId
                               /\ u.date >= at - WindowDays)

\* An EC2 rule that also fires at the threshold itself.
EC2RuleFiresUpTo(instance) ==
    /\ JsLessThan(instance.cpuType, instance.cpuAverage, CpuThreshold + 1)
    /\ instance.status = "running"

\* The condition of the EC2 rule.
EC2RuleFires(instance) ==
    /\ JsLessThan(instance.cpuType, instance.cpuAverage, CpuThreshold)
    /\ instance.status = "running"

\* Building the EC2 recommendation calls average.toFixed(1), a TypeError
\* when the stored average is null.
EC2RuleThrows(instance) ==
    EC2RuleFires(instance) /\ instance.cpuType # "number"

EC2Recommendation(userId, awsAccountId, instance) ==
    NewRecommendation(userId, awsAccountId, instance, "instance-downgrade",
                      (instance.cost * 5) \div 10, 50, "medium")

\* An S3 rule that also fires at 100 GB itself.
S3RuleFiresFrom(bucket) ==
    LET storageSize == IF bucket.sizeType = "number" THEN bucket.storageSize ELSE 0
    IN /\ storageSize >= SizeThresholdGB * MiBPerGB
       /\ bucket.storageClass = "Standard"

\* The condition of the S3 rule: storageGB > 100 and class Standard.
S3RuleFires(bucket) ==
    LET storageSize == IF bucket.sizeType = "number" THEN bucket.storageSize ELSE 0
    IN /\ storageSize > SizeThresholdGB * MiBPerGB
       /\ bucket.storageClass = "Standard"

S3Recommendation(userId, awsAccountId, bucket) ==
    NewRecommendation(userId, awsAccountId, bucket, "storage-class-change",
                      (bucket.cost * 4) \div 10, 40, "low")

\* The two loops of generateRecommendations over the usage it read: the
\* recommendations pushed, in order.
RECURSIVE EC2Loop(_, _, _)
EC2Loop(userId, awsAccountId, s) ==
    IF s = <<>> THEN <<>>
    ELSE (IF Head(s).service = "EC2" /\ EC2RuleFires(Head(s))
          THEN <<EC2Recommendation(userId, awsAccountId, Head(s))>> ELSE <<>>)
         \o EC2Loop(userId, awsAccountId, Tail(s))

RECURSIVE S3Loop(_, _, _)
S3Loop(userId, awsAccountId, s) ==
    IF s = <<>> THEN <<>>
    ELSE (IF Head(s).service = "S3" /\ S3RuleFires(Head(s))
          THEN <<S3Recommendation(userId, awsAccountId, Head(s))>> ELSE <<>>)
         \o S3Loop(userId, awsAccountId, Tail(s))

Recommendations(userId, awsAccountId, recentUsage) ==
    EC2Loop(userId, awsAccountId, recentUsage) \o S3Loop(userId, awsAccountId, recentUsage)

\* Some record makes a loop body throw; the function's one try/catch then
\* rethrows and the insertMany at its end is never reached.
EvaluationThrows(recentUsage) ==
    \E i \in 1..Len(recentUsage) :
        recentUsage[i].service = "EC2" /\ EC2RuleThrows(recentUsage[i])

---------------------------------------------------------------------------
(* Requests and responses *)

\* A handler suspended at an awaited store call.  snap is the usage an
\* engine run read; doc is the recommendation a route loaded followed by
\* that document as the route changed it (<<>> when there is none).  Two
\* history fields: repeat, whether the engine run read exactly what the
\* tenant's last completed run read, and seen, how many recommendations
\* the store held when the handler read.
Request(op, userId, awsAccountId, id, reason, snap, doc, repeat) ==
    [op |-> op, userId |-> userId, awsAccountId |-> awsAccountId, id |-> id,
     reason |-> reason, snap |-> snap, doc |-> doc, repeat |-> repeat,
     seen |-> Len(recs), n |-> 1]

\* The suspended handlers with one more: n tells apart two handlers that
\* hold the same data (the order they were started in does not matter).
Suspend(requests, req) ==
    LET free == {k \in 1..(Cardinality(requests) + 1) : [req EXCEPT !.n = k] \notin requests}
        k == CHOOSE k \in free : \A j \in free : k <= j
    IN requests \cup {[req EXCEPT !.n = k]}

\* What the engine or a lifecycle route answered: the HTTP status of a route, "ok" or
\* "throws" for a function; generated is recommendationsGenerated.
Response(op, outcome, reason, generated, repeat) ==
    [op |-> op, outcome |-> outcome, reason |-> reason,
     generated |-> generated, repeat |-> repeat]

\* JavaScript's !reason for a body field that is a string or missing.
IsFalsy(reason) == reason = NoReason \/ reason = ""

Terminal == {"implemented", "dismissed", "failed"}

Active == {"pending", "in-progress"}

---------------------------------------------------------------------------
(* Initial state *)

Init ==
    /\ now = 0
    /\ usage = <<>>
    /\ recs = <<>>
    /\ inflight = {}
    /\ fresh = [t \in Tenants |-> FALSE]
    /\ resp = Response("none", "ok", NoReason, 0, FALSE)
    /\ awsConfig = [accessKeyId |-> NoKey, secretAccessKey |-> NoKey, region |-> NoRegion]
    /\ awsAccounts = [u \in Users |->
          [accounts |-> <<StoredAccount(AccountOf(u), CredentialsOf(AccountOf(u)))>>,
           next |-> 1]]

---------------------------------------------------------------------------
(* Time *)

\* The history flag after the usage store or the clock changed: a tenant's
\* usage stays as the last run read it while its window holds the same
\* documents.
StillFresh(usageAfter, nowAfter) ==
    [t \in Tenants |->
        /\ fresh[t]
        /\ RecentUsage(usageAfter, t[1], t[2], nowAfter) = RecentUsage(usage, t[1], t[2], now)]

Tick ==
    /\ now + TickDays <= MaxNow
    /\ now' = now + TickDays
    /\ fresh' = StillFresh(usage, now')
    /\ UNCHANGED <<usage, recs, inflight, resp, awsConfig, awsAccounts>>

---------------------------------------------------------------------------
(* The AWS clients *)

\* configureAWS: AWS.config.update sets the keys it is given and leaves the
\* others of the shared configuration as they are.  process.env.AWS_REGION
\* is not set.
configureAWS(config, credentials) ==
    IF credentials # NoCredentials
    THEN [config EXCEPT !.accessKeyId = credentials.accessKeyId,
                        !.secretAccessKey = credentials.secretAccessKey,
                        !.region = credentials.region]
    ELSE [config EXCEPT !.region = "us-east-1"]

\* new AWS.EC2() and the like: the client takes its keys and region from
\* the shared configuration as it is at that moment.
NewClient(service, config) ==
    [service |-> service, accessKeyId |-> config.accessKeyId,
     secretAccessKey |-> config.secretAccessKey, region |-> config.region]

\* The services of getEC2Client .. getCloudWatchLogsClient.
ClientServices == {"EC2", "S3", "RDS", "CloudWatch", "CostExplorer", "CloudWatchLogs"}

\* One call of a get...Client function; the call and the client it returned
\* are kept in resp.
GetClient(service, credentials) ==
    /\ awsConfig' = configureAWS(awsConfig, credentials)
    /\ resp' = [op |-> "getClient", credentials |-> credentials,
                client |-> NewClient(service, awsConfig')]
    /\ UNCHANGED <<now, usage, recs, inflight, fresh, awsAccounts>>

\* user.awsAccounts.find(account => account._id.toString() === awsAccountId)
HasAccount(userId, awsAccountId) ==
    \E i \in 1..Len(awsAccounts[userId].accounts) :
        awsAccounts[userId].accounts[i]._id = awsAccountId

\* "Prepare AWS credentials": the keys and region of that account.
AccountCredentials(userId, awsAccountId) ==
    LET accounts == awsAccounts[userId].accounts
        awsAccount == accounts[CHOOSE i \in 1..Len(accounts) : accounts[i]._id = awsAccountId]
    IN [accessKeyId |-> awsAccount.accessKeyId,
        secretAccessKey |-> awsAccount.secretAccessKey, region |-> awsAccount.region]

---------------------------------------------------------------------------
(* Sync: the writers of the usage store *)

\* syncEC2Data for a tenant whose account holds the given instances.
syncEC2Data(userId, awsAccountId, reservations) ==
    LET instances == [i \in 1..Len(reservations) |->
                        EC2Usage(userId, awsAccountId, now, reservations[i])]
    IN /\ Len(usage) + Len(instances) <= MaxUsage
       /\ usage' = IF Len(instances) > 0 THEN InsertUsage(usage, instances) ELSE usage
       /\ fresh' = StillFresh(usage', now)
       /\ awsConfig' = configureAWS(awsConfig, CredentialsOf(awsAccountId))
       /\ UNCHANGED <<now, recs, inflight, resp, awsAccounts>>

\* syncS3Data for a tenant whose account holds the given buckets (name, size).
syncS3Data(userId, awsAccountId, bucketsData) ==
    LET buckets == [i \in 1..Len(bucketsData) |->
                      S3Usage(userId, awsAccountId, now,
                              bucketsData[i].Name, bucketsData[i].Size)]
    IN /\ Len(usage) + Len(buckets) <= MaxUsage
       /\ usage' = IF Len(buckets) > 0 THEN InsertUsage(usage, buckets) ELSE usage
       /\ fresh' = StillFresh(usage', now)
       /\ awsConfig' = configureAWS(awsConfig, CredentialsOf(awsAccountId))
       /\ UNCHANGED <<now, recs, inflight, resp, awsAccounts>>

\* syncRDSData for a tenant whose account holds the given DB instances.
syncRDSData(userId, awsAccountId, dbInstances) ==
    LET instances == [i \in 1..Len(dbInstances) |->
                        RDSUsage(userId, awsAccountId, now, dbInstances[i])]
    IN /\ Len(usage) + Len(instances) <= MaxUsage
       /\ usage' = IF Len(instances) > 0 THEN InsertUsage(usage, instances) ELSE usage
       /\ fresh' = StillFresh(usage', now)
       /\ awsConfig' = configureAWS(awsConfig, CredentialsOf(awsAccountId))
       /\ UNCHANGED <<now, recs, inflight, resp, awsAccounts>>

\* What describeDBInstances and getMetricStatistics can answer for account
\* a1: no DB instance, or one available db.t3.micro with no connection (one
\* datapoint of 0), with 40 connections, or without datapoints.
DBInstances ==
    {<<>>} \cup
    {<<[DBInstanceIdentifier |-> "db-1", DBInstanceClass |-> "db.t3.micro",
        Engine |-> "mysql", State |-> "available", Datapoints |-> dps]>>
        : dps \in {<<0>>, <<40>>, <<>>}}

\* syncEC2DataEnhanced for a tenant whose account holds the given instances;
\* the answer keeps what the sync observed (history).
syncEC2DataEnhanced(userId, awsAccountId, reservations) ==
    LET instances == [i \in 1..Len(reservations) |->
                        EC2UsageEnhanced(userId, awsAccountId, now, reservations[i])]
        throws == Len(instances) > 0 /\ InsertManyThrows(instances)
    IN /\ Len(usage) + Len(instances) <= MaxUsage
       /\ usage' = IF Len(instances) > 0 /\ ~throws
                    THEN InsertUsage(usage, instances) ELSE usage
       /\ fresh' = StillFresh(usage', now)
       /\ resp' = Response("syncEC2DataEnhanced", IF throws THEN "throws" ELSE "ok",
                           NoReason, 0, FALSE) @@ [observed |-> reservations]
       /\ awsConfig' = configureAWS(awsConfig, CredentialsOf(awsAccountId))
       /\ UNCHANGED <<now, recs, inflight, awsAccounts>>

\* The observations of an account's instance that the model draws from: its
\* state with the CloudWatch history of the last 24 hours.  Account a1's
\* instance is seen running with each history and stopped with one; account
\* a2's is always seen running at 12%.
Observations(awsAccountId) ==
    IF awsAccountId = "a1"
    THEN {<<"running", dps>> : dps \in DatapointSets} \cup {<<"stopped", <<12>>>>}
    ELSE {<<"running", <<12>>>>}

\* What describeInstances and getMetricStatistics can answer for an account:
\* no instance, or its instance under one of the observations.
Reservations(awsAccountId) ==
    {<<>>} \cup
    {<<[InstanceId |-> InstanceOf(awsAccountId),
        InstanceType |-> InstanceTypeOf(awsAccountId),
        State |-> o[1], Datapoints |-> o[2]]>> : o \in Observations(awsAccountId)}

\* What listBuckets and getS3BucketSize can answer for an account: account
\* a2 holds no bucket.
Buckets(awsAccountId) ==
    {<<>>} \cup
    (IF awsAccountId = "a1"
     THEN {<<[Name |-> BucketOf(awsAccountId), Size |-> sz]>> : sz \in BucketSizes}
     ELSE {})

\* A usage document another writer of the collection stores: the schema
\* leaves metrics.cpuUtilization.average optional, so it may be null or
\* absent.
IngestUsage(userId, awsAccountId, cpuType) ==
    LET doc == [EC2Usage(userId, awsAccountId, now,
                         [InstanceId |-> InstanceOf(awsAccountId),
                          InstanceType |-> InstanceTypeOf(awsAccountId),
                          State |-> "running", Datapoints |-> <<>>])
                EXCEPT !.cpuType = cpuType, !.writer = "other"]
    IN /\ Len(usage) + 1 <= MaxUsage
       /\ usage' = InsertUsage(usage, <<doc>>)
       /\ fresh' = StillFresh(usage', now)
       /\ UNCHANGED <<now, recs, inflight, resp, awsConfig, awsAccounts>>

\* An S3 usage document another writer of the collection stores for a
\* 250 GB bucket: the schema leaves metrics.storageSize.value optional and
\* storageClass a free string.
IngestS3Usage(userId, awsAccountId, sizeType, storageClass) ==
    LET size == IF sizeType = "number" THEN 250 * MiBPerGB ELSE 0
        doc == [S3Usage(userId, awsAccountId, now, BucketOf(awsAccountId), size)
                EXCEPT !.sizeType = sizeType, !.storageClass = storageClass,
                       !.cost = estimateS3Cost(250 * MiBPerGB, storageClass),
                       !.writer = "other"]
    IN /\ Len(usage) + 1 <= MaxUsage
       /\ usage' = InsertUsage(usage, <<doc>>)
       /\ fresh' = StillFresh(usage', now)
       /\ UNCHANGED <<now, recs, inflight, resp, awsConfig, awsAccounts>>

\* A usage document another writer of the collection stores under a date
\* of its own choice (the schema takes any Date): the instance of the
\* account, running at 12% CPU.
IngestDatedUsage(userId, awsAccountId, date) ==
    LET doc == [EC2Usage(userId, awsAccountId, date,
                         [InstanceId |-> InstanceOf(awsAccountId),
                          InstanceType |-> InstanceTypeOf(awsAccountId),
                          State |-> "running", Datapoints |-> <<12>>])
                EXCEPT !.writer = "other"]
    IN /\ Len(usage) + 1 <= MaxUsage
       /\ usage' = InsertUsage(usage, <<doc>>)
       /\ fresh' = StillFresh(usage', now)
       /\ UNCHANGED <<now, recs, inflight, resp, awsConfig, awsAccounts>>

---------------------------------------------------------------------------
(* generateRecommendations *)

\* The call up to the answer of AWSUsage.find.
GenFind(userId, awsAccountId) ==
    LET recentUsage == RecentUsage(usage, userId, awsAccountId, now)
    IN /\ Cardinality(inflight) < MaxInflight
       /\ inflight' = Suspend(inflight,
              Request("generateRecommendations", userId, awsAccountId, 0, NoReason,
                      recentUsage, <<>>,
                      fresh[<<userId, awsAccountId>>]))
       /\ UNCHANGED <<now, usage, recs, fresh, resp, awsConfig, awsAccounts>>

\* From the answer of find to the end: the two loops, insertMany, the result.
GenInsert(req) ==
    LET recommendations == Recommendations(req.userId, req.awsAccountId, req.snap)
    IN /\ req.op = "generateRecommendations"
       /\ inflight' = inflight \ {req}
       /\ IF EvaluationThrows(req.snap)
          THEN /\ resp' = Response(req.op, "throws", NoReason, 0, req.repeat)
               /\ UNCHANGED <<recs, fresh>>
          ELSE /\ Len(recs) + Len(recommendations) <= MaxRecs
               /\ recs' = IF Len(recommendations) > 0
                          THEN InsertRecommendations(recs, recommendations)
                          ELSE recs
               /\ fresh' = [fresh EXCEPT ![<<req.userId, req.awsAccountId>>] =
                      req.snap = RecentUsage(usage, req.userId, req.awsAccountId, now)]
               /\ resp' = Response(req.op, "ok", NoReason,
                                   Len(recommendations), req.repeat)
       /\ UNCHANGED <<now, usage, awsConfig, awsAccounts>>

---------------------------------------------------------------------------
(* The lifecycle routes *)

\* recommendationSchema.methods.markAsImplemented, up to its save().
markAsImplemented(doc, userId, at) ==
    [doc EXCEPT !.status = "implemented",
                !.implementedAt = at,
                !.implementedBy = userId]

\* A dismiss that sets the status and leaves the stamps alone.
dismissUnstamped(doc, userId, reason, at) == [doc EXCEPT !.status = "dismissed"]

\* recommendationSchema.methods.dismiss, up to its save().
dismiss(doc, userId, reason, at) ==
    [doc EXCEPT !.status = "dismissed",
                !.dismissedAt = at,
                !.dismissedBy = userId,
                !.dismissalReason = reason]

\* document.save() of a loaded document: an update by _id that sets the
\* paths assigned a value other than the loaded one (a new Date() always is
\* one: dates names the stamps assigned); every other path of the stored
\* document stays as it is in the store.
Save(stored, loaded, updated, dates) ==
    [f \in DOMAIN stored |->
        IF f \in dates \/ updated[f] # loaded[f] THEN updated[f] ELSE stored[f]]

\* An ownership check that lets every authenticated user through.
AnyUser(doc, userId) == userId \in Users

\* recommendation.userId.toString() === userId.toString(): the check both
\* routes make on the document they loaded.
IsOwner(doc, userId) == doc.userId = userId

\* PUT /recommendations/:id/implement up to the save it awaits.
ImplementFind(id, userId) ==
    /\ Cardinality(inflight) < MaxInflight
    /\ IF id \notin 1..Len(recs)
       THEN /\ resp' = Response("implement", "404", NoReason, 0, FALSE)
            /\ UNCHANGED inflight
       ELSE IF ~IsOwner(recs[id], userId)
       THEN /\ resp' = Response("implement", "403", NoReason, 0, FALSE)
            /\ UNCHANGED inflight
       ELSE /\ inflight' = Suspend(inflight,
                   Request("implement", userId, recs[id].awsAccountId, id, NoReason,
                           <<>>, <<recs[id], markAsImplemented(recs[id], userId, now)>>,
                           FALSE))
            /\ UNCHANGED resp
    /\ UNCHANGED <<now, usage, recs, fresh, awsConfig, awsAccounts>>

\* The save of an implement request reaches the store; the route answers.
ImplementSave(req) ==
    LET id == req.id
    IN /\ req.op = "implement"
       /\ inflight' = inflight \ {req}
       /\ recs' = [recs EXCEPT ![id] =
                      Save(recs[id], req.doc[1], req.doc[2], {"implementedAt"})]
       /\ resp' = Response("implement", "200", NoReason, 0, FALSE)
       /\ UNCHANGED <<now, usage, fresh, awsConfig, awsAccounts>>

\* A check of body.reason that only asks whether the field is present.
ReasonPresent(reason) == reason # NoReason

\* The check of body.reason that opens PUT /recommendations/:id/dismiss.
ReasonAccepted(reason) == ~IsFalsy(reason)

\* PUT /recommendations/:id/dismiss up to the save it awaits.
DismissFind(id, userId, reason) ==
    /\ Cardinality(inflight) < MaxInflight
    /\ IF ~ReasonAccepted(reason)
       THEN /\ resp' = Response("dismiss", "400", reason, 0, FALSE)
            /\ UNCHANGED inflight
       ELSE IF id \notin 1..Len(recs)
       THEN /\ resp' = Response("dismiss", "404", reason, 0, FALSE)
            /\ UNCHANGED inflight
       ELSE IF ~IsOwner(recs[id], userId)
       THEN /\ resp' = Response("dismiss", "403", reason, 0, FALSE)
            /\ UNCHANGED inflight
       ELSE /\ inflight' = Suspend(inflight,
                   Request("dismiss", userId, recs[id].awsAccountId, id, reason,
                           <<>>, <<recs[id], dismiss(recs[id], userId, reason, now)>>,
                           FALSE))
            /\ UNCHANGED resp
    /\ UNCHANGED <<now, usage, recs, fresh, awsConfig, awsAccounts>>

\* The save of a dismiss request reaches the store; the route answers.
DismissSave(req) ==
    LET id == req.id
    IN /\ req.op = "dismiss"
       /\ inflight' = inflight \ {req}
       /\ recs' = [recs EXCEPT ![id] =
                      Save(recs[id], req.doc[1], req.doc[2], {"dismissedAt"})]
       /\ resp' = Response("dismiss", "200", req.reason, 0, FALSE)
       /\ UNCHANGED <<now, usage, fresh, awsConfig, awsAccounts>>

---------------------------------------------------------------------------
(* POST /sync *)

\* The services arrays of the requests the model sends.
ServiceLists == {<<>>, <<"EC2">>}

\* The service lists of requests that ask for up to three services, in the
\* order of the code or in another.
OrchestratedLists ==
    {<<>>, <<"EC2">>, <<"S3">>, <<"RDS">>, <<"S3", "EC2">>, <<"EC2", "S3", "RDS">>}

\* The service blocks of the route in the order the code runs them.
ServiceBlocks == <<"EC2", "S3", "RDS">>

\* services.includes(s) for each block in turn: the blocks a request runs.
Requested(services) ==
    SelectSeq(ServiceBlocks, LAMBDA s : \E i \in 1..Len(services) : services[i] = s)

\* The route suspended at an await: todo holds the requested services not
\* yet attempted; syncedServices, errors and totalResourcesSynced are
\* syncResults.data so far; counts holds the instancesSynced / bucketsSynced
\* of each entry of syncedServices; requested is body.services (history).
SyncRequest(userId, awsAccountId, services) ==
    Request("sync", userId, awsAccountId, 0, NoReason, <<>>, <<>>, FALSE)
        @@ [todo |-> Requested(services), syncedServices |-> {}, errors |-> {},
            totalResourcesSynced |-> 0, counts |-> [s \in {} |-> 0],
            requested |-> {services[i] : i \in 1..Len(services)}]

\* What the route answers: hasGenerated tells whether the body carries
\* recommendationsGenerated; engineCalls counts the runs of the engine the
\* request started (history).
SyncResponse(outcome, syncedServices, errors, hasGenerated, generated, engineCalls) ==
    Response("sync", outcome, NoReason, generated, FALSE)
        @@ [syncedServices |-> syncedServices, errors |-> errors,
            hasGenerated |-> hasGenerated, engineCalls |-> engineCalls]

\* A status rule that takes any error for a failed sync.
SyncSuccessStrict(syncedServices, errors) == errors = {}

\* "Update sync status based on results": syncResults.success.
SyncSuccess(syncedServices, errors) == ~(errors # {} /\ syncedServices = {})

\* What the body of a completed sync carries besides: success and what the
\* service blocks filed.
SyncSummary(req, errors) ==
    [success |-> SyncSuccess(req.syncedServices, errors),
     totalResourcesSynced |-> req.totalResourcesSynced,
     counts |-> req.counts, requested |-> req.requested]

\* The try / catch around one service sync: the result goes to
\* syncedServices and its count to totalResourcesSynced, or the error goes
\* to errors; the route moves on to the next block.
Filed(req, service, throws, count) ==
    [req EXCEPT !.todo = Tail(req.todo),
                !.syncedServices = IF throws THEN @ ELSE @ \cup {service},
                !.errors = IF throws THEN @ \cup {service} ELSE @,
                !.totalResourcesSynced = IF throws THEN @ ELSE @ + count,
                !.counts = IF throws THEN @ ELSE (service :> count) @@ @]

\* From the request to the answer of User.findById: 400 without
\* awsAccountId, 404 when the user has no such account.
SyncLookup(userId, awsAccountId, services) ==
    /\ Cardinality(inflight) < MaxInflight
    /\ IF awsAccountId = NoAccount
       THEN /\ resp' = SyncResponse("400", {}, {}, FALSE, 0, 0)
            /\ UNCHANGED inflight
       ELSE IF ~HasAccount(userId, awsAccountId)
       THEN /\ resp' = SyncResponse("404", {}, {}, FALSE, 0, 0)
            /\ UNCHANGED inflight
       ELSE /\ inflight' = Suspend(inflight, SyncRequest(userId, awsAccountId, services))
            /\ UNCHANGED resp
    /\ UNCHANGED <<now, usage, recs, fresh, awsConfig, awsAccounts>>

\* if (services.includes('EC2')): the call of syncEC2DataEnhanced in its
\* try / catch, for an account that holds the given instances.
SyncEC2(req, reservations) ==
    LET instances == [i \in 1..Len(reservations) |->
                        EC2UsageEnhanced(req.userId, req.awsAccountId, now, reservations[i])]
        throws == Len(instances) > 0 /\ InsertManyThrows(instances)
    IN /\ req.op = "sync"
       /\ req.todo # <<>> /\ Head(req.todo) = "EC2"
       /\ Len(usage) + Len(instances) <= MaxUsage
       /\ usage' = IF Len(instances) > 0 /\ ~throws
                    THEN InsertUsage(usage, instances) ELSE usage
       /\ fresh' = StillFresh(usage', now)
       /\ inflight' = Suspend(inflight \ {req}, Filed(req, "EC2", throws, Len(instances)))
       /\ awsConfig' = configureAWS(awsConfig, AccountCredentials(req.userId, req.awsAccountId))
       /\ UNCHANGED <<now, recs, resp, awsAccounts>>

\* if (services.includes('S3')): the call of syncS3DataEnhanced in its
\* try / catch, for an account that holds the given buckets; rejects tells
\* that listBuckets failed.
SyncS3(req, bucketsData, rejects) ==
    LET buckets == [i \in 1..Len(bucketsData) |->
                      S3UsageEnhanced(req.userId, req.awsAccountId, now,
                                      bucketsData[i].Name, bucketsData[i].Size)]
        throws == rejects \/ (Len(buckets) > 0 /\ InsertManyThrows(buckets))
    IN /\ req.op = "sync"
       /\ req.todo # <<>> /\ Head(req.todo) = "S3"
       /\ Len(usage) + Len(buckets) <= MaxUsage
       /\ usage' = IF Len(buckets) > 0 /\ ~throws
                    THEN InsertUsage(usage, buckets) ELSE usage
       /\ fresh' = StillFresh(usage', now)
       /\ inflight' = Suspend(inflight \ {req}, Filed(req, "S3", throws, Len(buckets)))
       /\ awsConfig' = configureAWS(awsConfig, AccountCredentials(req.userId, req.awsAccountId))
       /\ UNCHANGED <<now, recs, resp, awsAccounts>>

\* if (services.includes('RDS')): the call of syncRDSDataEnhanced in its
\* try / catch, for an account that holds the given DB instances; rejects
\* tells that describeDBInstances failed.
SyncRDS(req, dbInstances, rejects) ==
    LET instances == [i \in 1..Len(dbInstances) |->
                        RDSUsageEnhanced(req.userId, req.awsAccountId, now, dbInstances[i])]
        throws == rejects \/ (Len(instances) > 0 /\ InsertManyThrows(instances))
    IN /\ req.op = "sync"
       /\ req.todo # <<>> /\ Head(req.todo) = "RDS"
       /\ Len(usage) + Len(instances) <= MaxUsage
       /\ usage' = IF Len(instances) > 0 /\ ~throws
                    THEN InsertUsage(usage, instances) ELSE usage
       /\ fresh' = StillFresh(usage', now)
       /\ inflight' = Suspend(inflight \ {req}, Filed(req, "RDS", throws, Len(instances)))
       /\ awsConfig' = configureAWS(awsConfig, AccountCredentials(req.userId, req.awsAccountId))
       /\ UNCHANGED <<now, recs, resp, awsAccounts>>

\* "Generate recommendations after sync": the call of the required
\* generateRecommendations in its try / catch, and the response.  Calling
\* undefined raises a TypeError that the catch files under errors.  (Where
\* the binding is a function the engine's run is taken in one step.)
SyncRecommend(req) ==
    LET recentUsage == RecentUsage(usage, req.userId, req.awsAccountId, now)
        recommendations == Recommendations(req.userId, req.awsAccountId, recentUsage)
        failed == req.errors \cup {"Recommendations"}
    IN /\ req.op = "sync"
       /\ req.todo = <<>>
       /\ inflight' = inflight \ {req}
       /\ IF Required("generateRecommendations") = "undefined"
          THEN /\ resp' = SyncResponse("200", req.syncedServices, failed, FALSE, 0, 0)
                             @@ SyncSummary(req, failed)
               /\ UNCHANGED <<recs, fresh>>
          ELSE IF EvaluationThrows(recentUsage)
          THEN /\ resp' = SyncResponse("200", req.syncedServices, failed, FALSE, 0, 1)
                             @@ SyncSummary(req, failed)
               /\ UNCHANGED <<recs, fresh>>
          ELSE /\ Len(recs) + Len(recommendations) <= MaxRecs
               /\ recs' = IF Len(recommendations) > 0
                          THEN InsertRecommendations(recs, recommendations)
                          ELSE recs
               /\ fresh' = [fresh EXCEPT ![<<req.userId, req.awsAccountId>>] = TRUE]
               /\ resp' = SyncResponse("200", req.syncedServices, req.errors, TRUE,
                                       Len(recommendations), 1)
                             @@ SyncSummary(req, req.errors)
       /\ UNCHANGED <<now, usage, awsConfig, awsAccounts>>

---------------------------------------------------------------------------
(* The system *)

\* The instance of account a1 as a sync sees it while it runs at 12% CPU.
BusyInstance ==
    [InstanceId |-> InstanceOf("a1"), InstanceType |-> InstanceTypeOf("a1"),
     State |-> "running", Datapoints |-> <<12>>]

\* The whole path of one account: its instance is synced, the engine runs,
\* and both users send implement and dismiss requests.
Next ==
    \/ \E r \in {<<>>, <<BusyInstance>>} : syncEC2Data("u1", "a1", r)
    \/ GenFind("u1", "a1")
    \/ \E req \in inflight : GenInsert(req)
    \/ \E id \in 1..MaxRecs : \E u \in Users : ImplementFind(id, u)
    \/ \E req \in inflight : ImplementSave(req)
    \/ \E id \in 1..MaxRecs : \E u \in Users : \E r \in Reasons : DismissFind(id, u, r)
    \/ \E req \in inflight : DismissSave(req)

Spec == Init /\ [][Next]_vars

\* The dismiss route alone on the recommendations of one account that is
\* synced once.
NextDismiss ==
    \/ usage = <<>> /\ syncEC2Data("u1", "a1", <<BusyInstance>>)
    \/ GenFind("u1", "a1")
    \/ \E req \in inflight : GenInsert(req)
    \/ \E id \in 1..MaxRecs : \E u \in Users : \E r \in Reasons : DismissFind(id, u, r)
    \/ \E req \in inflight : DismissSave(req)

SpecDismiss == Init /\ [][NextDismiss]_vars

\* Both lifecycle routes, called by both users, on the recommendation of
\* one account that is synced and evaluated once.
NextLifecycle ==
    \/ usage = <<>> /\ syncEC2Data("u1", "a1", <<BusyInstance>>)
    \/ recs = <<>> /\ inflight = {} /\ GenFind("u1", "a1")
    \/ \E req \in inflight : GenInsert(req)
    \/ \E id \in 1..MaxRecs : \E u \in Users : ImplementFind(id, u)
    \/ \E req \in inflight : ImplementSave(req)
    \/ \E id \in 1..MaxRecs : \E u \in Users : \E r \in Reasons : DismissFind(id, u, r)
    \/ \E req \in inflight : DismissSave(req)

SpecLifecycle == Init /\ [][NextLifecycle]_vars

\* The engine under every usage the writers can store, for both tenants and
\* with the clock moving; no recommendation changes its status.
NextEngine ==
    \/ Tick
    \/ \E t \in Tenants : \E r \in Reservations(t[2]) : syncEC2Data(t[1], t[2], r)
    \/ \E t \in Tenants : \E b \in Buckets(t[2]) : syncS3Data(t[1], t[2], b)
    \/ \E c \in {"null", "undefined"} : IngestUsage("u1", "a1", c)
    \/ \E t \in Tenants : GenFind(t[1], t[2])
    \/ \E req \in inflight : GenInsert(req)

SpecEngine == Init /\ [][NextEngine]_vars

\* The engine of one tenant, with the clock moving, over every usage record
\* the sync functions store for its account and over records without a CPU
\* metric, without a storage size, or of another storage class.
NextRules ==
    \/ Tick
    \/ \E r \in Reservations("a1") : syncEC2Data("u1", "a1", r)
    \/ \E b \in Buckets("a1") : syncS3Data("u1", "a1", b)
    \/ IngestUsage("u1", "a1", "undefined")
    \/ \E b \in {<<"undefined", "Standard">>, <<"number", "S3-IA">>} :
          IngestS3Usage("u1", "a1", b[1], b[2])
    \/ inflight = {} /\ GenFind("u1", "a1")
    \/ \E req \in inflight : GenInsert(req)

SpecRules == Init /\ [][NextRules]_vars

\* One account with a DB instance and an EC2 instance: both are synced and
\* the engine runs.
NextDatabases ==
    \/ \E d \in DBInstances : syncRDSData("u1", "a1", d)
    \/ \E r \in {<<>>, <<BusyInstance>>} : syncEC2Data("u1", "a1", r)
    \/ GenFind("u1", "a1")
    \/ \E req \in inflight : GenInsert(req)

SpecDatabases == Init /\ [][NextDatabases]_vars

\* POST /sync requests of user u1 (for its account a1, for an account that
\* is not its own, and without an account) while the usage store also holds
\* what syncEC2Data stored and the clock moves.
NextSync ==
    \/ Tick
    \/ syncEC2Data("u1", "a1", <<BusyInstance>>)
    \/ \E a \in {"a1", "a2", NoAccount} : \E sv \in ServiceLists : SyncLookup("u1", a, sv)
    \/ \E req \in inflight : \E r \in {<<>>, <<BusyInstance>>} : SyncEC2(req, r)
    \/ \E req \in inflight : SyncRecommend(req)

SpecSync == Init /\ [][NextSync]_vars

\* The enhanced EC2 sync and the S3 sync of one account, each followed by
\* runs of the engine: a sync starts while no engine run is under way.
NextEnhanced ==
    \/ \E r \in Reservations("a1") : inflight = {} /\ syncEC2DataEnhanced("u1", "a1", r)
    \/ \E b \in Buckets("a1") : syncS3Data("u1", "a1", b)
    \/ GenFind("u1", "a1")
    \/ \E req \in inflight : GenInsert(req)

SpecEnhanced == Init /\ [][NextEnhanced]_vars

\* The engine of one account whose usage is written by syncEC2Data and by
\* a writer that dates a record one day ahead; the clock moves while no
\* engine run is under way.
NextWindow ==
    \/ inflight = {} /\ Tick
    \/ syncEC2Data("u1", "a1", <<BusyInstance>>)
    \/ IngestDatedUsage("u1", "a1", now + 1)
    \/ GenFind("u1", "a1")
    \/ \E req \in inflight : GenInsert(req)

SpecWindow == Init /\ [][NextWindow]_vars

\* The instance of an account as a sync sees it while it runs at 12% CPU.
BusyInstanceOf(awsAccountId) ==
    [InstanceId |-> InstanceOf(awsAccountId), InstanceType |-> InstanceTypeOf(awsAccountId),
     State |-> "running", Datapoints |-> <<12>>]

\* Two tenants whose instances both run idle: each is synced and evaluated,
\* in any interleaving.
NextTenants ==
    \/ \E t \in Tenants : syncEC2Data(t[1], t[2], <<BusyInstanceOf(t[2])>>)
    \/ \E t \in Tenants : GenFind(t[1], t[2])
    \/ \E req \in inflight : GenInsert(req)

SpecTenants == Init /\ [][NextTenants]_vars

---------------------------------------------------------------------------
(* The estimators as functions of their arguments *)

\* estimateEC2Cost of the enhanced sync module.
estimateEC2CostEnhanced(instanceType, isRunning) ==
    LET baseCosts == [t \in {"t3.nano", "t3.micro", "t3.small", "t3.medium", "t3.large",
                             "m5.large", "m5.xlarge", "c5.large", "c5.xlarge",
                             "r5.large", "r5.xlarge"} |->
                        CASE t = "t3.nano" -> 52
                          [] t = "t3.micro" -> 104
                          [] t = "t3.small" -> 208
                          [] t = "t3.medium" -> 416
                          [] t = "t3.large" -> 832
                          [] t = "m5.large" -> 960
                          [] t = "m5.xlarge" -> 1920
                          [] t = "c5.large" -> 850
                          [] t = "c5.xlarge" -> 1700
                          [] t = "r5.large" -> 1260
                          [] t = "r5.xlarge" -> 2520]
    IN IF isRunning
       THEN (IF instanceType \in DOMAIN baseCosts THEN baseCosts[instanceType]
             ELSE DefaultHourlyCost)
       ELSE 0

\* estimateRDSCost of the enhanced sync module.
estimateRDSCostEnhanced(instanceClass, engine, isRunning) ==
    LET baseCosts == [c \in {"db.t3.micro", "db.t3.small", "db.t3.medium", "db.m5.large",
                             "db.m5.xlarge", "db.r5.large", "db.r5.xlarge"} |->
                        CASE c = "db.t3.micro" -> 170
                          [] c = "db.t3.small" -> 340
                          [] c = "db.t3.medium" -> 680
                          [] c = "db.m5.large" -> 1710
                          [] c = "db.m5.xlarge" -> 3420
                          [] c = "db.r5.large" -> 2160
                          [] c = "db.r5.xlarge" -> 4320]
    IN IF isRunning
       THEN (IF instanceClass \in DOMAIN baseCosts THEN baseCosts[instanceClass]
             ELSE DefaultHourlyCost)
       ELSE 0

\* An instance whose description carries no type.
NoClass == "<undefined>"

\* The instance types and classes describeInstances and describeDBInstances
\* report: the keys of the four price tables, two the tables do not list,
\* and a missing field.
Classes ==
    {"t3.nano", "t3.micro", "t3.small", "t3.medium", "t3.large", "m5.large", "m5.xlarge",
     "c5.large", "c5.xlarge", "r5.large", "r5.xlarge",
     "db.t3.micro", "db.t3.small", "db.t3.medium", "db.m5.large", "db.m5.xlarge",
     "db.r5.large", "db.r5.xlarge",
     "x9.unlisted", "db.x9.unlisted", NoClass}

Estimators ==
    {"estimateEC2Cost", "estimateRDSCost", "estimateEC2CostEnhanced", "estimateRDSCostEnhanced"}

\* One call of an estimator; the call and what it returned are kept in resp.
Estimate(fn, class, isRunning) ==
    /\ resp' = [op |-> "estimate", fn |-> fn, class |-> class, isRunning |-> isRunning,
                amount |-> CASE fn = "estimateEC2Cost" -> estimateEC2Cost(class, isRunning)
                             [] fn = "estimateRDSCost" -> estimateRDSCost(class, "mysql", isRunning)
                             [] fn = "estimateEC2CostEnhanced" ->
                                    estimateEC2CostEnhanced(class, isRunning)
                             [] fn = "estimateRDSCostEnhanced" ->
                                    estimateRDSCostEnhanced(class, "mysql", isRunning)]
    /\ UNCHANGED <<now, usage, recs, inflight, fresh, awsConfig, awsAccounts>>

NextEstimators ==
    \E fn \in Estimators, class \in Classes, isRunning \in BOOLEAN : Estimate(fn, class, isRunning)

SpecEstimators == Init /\ [][NextEstimators]_vars

\* A usage document another writer of the collection stores with the cost
\* amount it was given (0 among them: the schema requires a number and sets
\* no minimum): the instance of the account, running at 12% CPU.
IngestCostedUsage(userId, awsAccountId, amount) ==
    LET doc == [EC2Usage(userId, awsAccountId, now,
                         [InstanceId |-> InstanceOf(awsAccountId),
                          InstanceType |-> InstanceTypeOf(awsAccountId),
                          State |-> "running", Datapoints |-> <<12>>])
                EXCEPT !.cost = amount, !.writer = "other"]
    IN /\ Len(usage) + 1 <= MaxUsage
       /\ usage' = InsertUsage(usage, <<doc>>)
       /\ fresh' = StillFresh(usage', now)
       /\ UNCHANGED <<now, recs, inflight, resp, awsConfig, awsAccounts>>

\* The rule engine over usage whose cost amounts are reported, estimated
\* or zero.
NextCosts ==
    \/ inflight = {} /\ Tick
    \/ syncEC2Data("u1", "a1", <<BusyInstance>>)
    \/ \E amount \in {0, 250} : IngestCostedUsage("u1", "a1", amount)
    \/ GenFind("u1", "a1")
    \/ \E req \in inflight : GenInsert(req)

SpecCosts == Init /\ [][NextCosts]_vars

\* The engine next to the lifecycle routes of one tenant: the engine runs
\* again while the first recommendation is pending, implemented or dismissed,
\* or has an implement or dismiss request under way.
NextFrame ==
    \/ usage = <<>> /\ syncEC2Data("u1", "a1", <<BusyInstance>>)
    \/ inflight = {} /\ GenFind("u1", "a1")
    \/ \E req \in inflight : GenInsert(req)
    \/ ImplementFind(1, "u1")
    \/ \E req \in inflight : ImplementSave(req)
    \/ \E r \in Reasons : DismissFind(1, "u1", r)
    \/ \E req \in inflight : DismissSave(req)

SpecFrame == Init /\ [][NextFrame]_vars

---------------------------------------------------------------------------
(* GET /recommendations *)

\* The values of the priority enum in the order MongoDB compares strings.
StringOrder == <<"critical", "high", "low", "medium">>

\* The position of a priority in that order.
StringPosition(priority) == CHOOSE i \in 1..Len(StringOrder) : StringOrder[i] = priority

\* .sort({ priority: 1, estimatedSavings: -1 }): a comes strictly before b.
\* priority is a String path and sorts ascending as a string; the savings
\* documents compare by their first field, the amount, descending.
SortsBefore(a, b) ==
    \/ StringPosition(a.priority) < StringPosition(b.priority)
    \/ /\ a.priority = b.priority
       /\ a.estimatedSavings > b.estimatedSavings

\* The orders in which find(query).sort(...) can return the documents docs:
\* every arrangement the sort keys allow (documents with equal keys come in
\* any order).
SortedResults(docs) ==
    {[i \in 1..Len(docs) |-> docs[p[i]]] : p \in
        {q \in Permutations(1..Len(docs)) :
            \A i, j \in 1..Len(docs) : i < j => ~SortsBefore(docs[q[j]], docs[q[i]])}}

\* GET /recommendations without filters, first page: the find with its sort,
\* and the response.
ListRecommendations(userId) ==
    LET matching == SelectSeq(recs, LAMBDA doc : doc.userId = userId)
    IN /\ \E recommendations \in SortedResults(matching) :
             resp' = [op |-> "list", outcome |-> "200", recommendations |-> recommendations]
       /\ UNCHANGED <<now, usage, recs, inflight, fresh, awsConfig, awsAccounts>>

\* The engine over one instance and one bucket of a tenant, and the list of
\* what it recommended.
NextList ==
    \/ syncEC2Data("u1", "a1", <<BusyInstance>>)
    \/ \E b \in Buckets("a1") : syncS3Data("u1", "a1", b)
    \/ inflight = {} /\ GenFind("u1", "a1")
    \/ \E req \in inflight : GenInsert(req)
    \/ ListRecommendations("u1")

SpecList == Init /\ [][NextList]_vars

\* POST /sync requests of user u1 for its account a1, one at a time, over
\* every service list: the account holds an instance, a bucket and a DB
\* instance or none of each, and an AWS call may fail.
NextOrchestration ==
    \/ \E sv \in OrchestratedLists : inflight = {} /\ SyncLookup("u1", "a1", sv)
    \/ \E req \in inflight : \E r \in {<<>>, <<BusyInstance>>} : SyncEC2(req, r)
    \/ \E req \in inflight : \E b \in Buckets("a1") : \E rejects \in BOOLEAN :
          SyncS3(req, b, rejects)
    \/ \E req \in inflight : \E d \in DBInstances : \E rejects \in BOOLEAN :
          SyncRDS(req, d, rejects)
    \/ \E req \in inflight : SyncRecommend(req)

SpecOrchestration == Init /\ [][NextOrchestration]_vars

\* Calls of the client functions with the credentials of an account or
\* without credentials, between syncs of the two tenants.
NextClients ==
    \/ \E t \in Tenants : syncEC2Data(t[1], t[2], <<BusyInstanceOf(t[2])>>)
    \/ \E service \in ClientServices :
          \E credentials \in {NoCredentials, CredentialsOf("a1"), CredentialsOf("a2")} :
             GetClient(service, credentials)

SpecClients == Init /\ [][NextClients]_vars

---------------------------------------------------------------------------
(* The aws-account routes *)

\* findIndex(account => account._id.toString() === accountId), 0 for -1.
AccountIndex(accounts, accountId) ==
    IF \E i \in 1..Len(accounts) : accounts[i]._id = accountId
    THEN CHOOSE i \in 1..Len(accounts) :
            /\ accounts[i]._id = accountId
            /\ \A j \in 1..(i - 1) : accounts[j]._id # accountId
    ELSE 0

\* The _id the store hands to the next new element of awsAccounts.
NextAccountId(user) == ToString(user.next)

\* POST /aws-account, from the request to the response: no other request of
\* the user is under way.
addAWSAccount(userId, credentials) ==
    LET user == awsAccounts[userId]
        existingAccount == \E i \in 1..Len(user.accounts) :
                              user.accounts[i].accessKeyId = credentials.accessKeyId
    IN /\ IF existingAccount
          THEN /\ resp' = Response("addAccount", "400", NoReason, 0, FALSE)
               /\ UNCHANGED awsAccounts
          ELSE /\ Len(user.accounts) < MaxAccounts
               /\ user.next <= MaxAccountIds
               /\ awsAccounts' = [awsAccounts EXCEPT ![userId] =
                      [accounts |-> Append(user.accounts,
                                           StoredAccount(NextAccountId(user), credentials)),
                       next |-> user.next + 1]]
               /\ resp' = Response("addAccount", "201", NoReason, 0, FALSE)
       /\ UNCHANGED <<now, usage, recs, inflight, fresh, awsConfig>>

\* PUT /aws-account/:accountId, from the request to the response: no other
\* request of the user is under way.  The element is replaced by the spread
\* of the stored subdocument with the body's fields over it; renew tells
\* whether the cast of that object gives the element a new _id (the spread
\* copies the subdocument's own properties, which need not include _id).
updateAWSAccount(userId, accountId, credentials, renew) ==
    LET user == awsAccounts[userId]
        accountIndex == AccountIndex(user.accounts, accountId)
    IN /\ IF accountIndex = 0
          THEN /\ resp' = Response("updateAccount", "404", NoReason, 0, FALSE)
               /\ UNCHANGED awsAccounts
          ELSE /\ renew => user.next <= MaxAccountIds
               /\ awsAccounts' = [awsAccounts EXCEPT ![userId] =
                      [accounts |-> [user.accounts EXCEPT ![accountIndex] =
                                        StoredAccount(IF renew THEN NextAccountId(user)
                                                      ELSE accountId, credentials)],
                       next |-> IF renew THEN user.next + 1 ELSE user.next]]
               /\ resp' = Response("updateAccount", "200", NoReason, 0, FALSE)
       /\ UNCHANGED <<now, usage, recs, inflight, fresh, awsConfig>>

\* DELETE /aws-account/:accountId, from the request to the response: no
\* other request of the user is under way.
deleteAWSAccount(userId, accountId) ==
    LET user == awsAccounts[userId]
        accountIndex == AccountIndex(user.accounts, accountId)
    IN /\ IF accountIndex = 0
          THEN /\ resp' = Response("deleteAccount", "404", NoReason, 0, FALSE)
               /\ UNCHANGED awsAccounts
          ELSE /\ awsAccounts' = [awsAccounts EXCEPT ![userId].accounts =
                      SubSeq(user.accounts, 1, accountIndex - 1)
                          \o SubSeq(user.accounts, accountIndex + 1, Len(user.accounts))]
               /\ resp' = Response("deleteAccount", "200", NoReason, 0, FALSE)
       /\ UNCHANGED <<now, usage, recs, inflight, fresh, awsConfig>>

\* The :accountId values of the requests: the account the user starts with
\* and the _ids handed out since.
AccountIds == {"a1"} \cup {ToString(k) : k \in 1..MaxAccountIds}

\* User u1 adds, updates and deletes accounts with the key pair of a1 or
\* of a2.
NextAccounts ==
    \/ \E a \in {"a1", "a2"} : addAWSAccount("u1", CredentialsOf(a))
    \/ \E id \in AccountIds : \E a \in {"a1", "a2"} : \E renew \in BOOLEAN :
          updateAWSAccount("u1", id, CredentialsOf(a), renew)
    \/ \E id \in AccountIds : deleteAWSAccount("u1", id)

SpecAccounts == Init /\ [][NextAccounts]_vars

---------------------------------------------------------------------------
(* Claims *)

SamePair(a, b) ==
    /\ a.userId = b.userId
    /\ a.awsAccountId = b.awsAccountId
    /\ a.resourceId = b.resourceId
    /\ a.recommendationType = b.recommendationType

\* The recommendations a step added to the store.
Added == (Len(recs) + 1)..Len(recs')

\* The usage record was written by a sync that had CPU datapoints, or by a
\* sync of another service: its rule input is a measured value.
Measured(u) == u.writer = "syncS3Data" \/ (u.writer = "syncEC2Data" /\ u.dataPoints > 0)

AllMeasured(snap) == \A k \in 1..Len(snap) : Measured(snap[k])

\* C1 (idempotence): an engine run that reads the usage the tenant's last
\* completed run read, unchanged, creates no recommendation: its created
\* count is 0.  (Stated for runs over measured usage.)
C1_SecondRunCreatesNothing ==
    [][\A req \in inflight :
          (GenInsert(req) /\ req.repeat /\ AllMeasured(req.snap))
              => (resp'.generated = 0 /\ Added = {})]_vars

\* C2 (at most one active): in every state the store holds at most one
\* recommendation with a non-terminal status per (resourceId,
\* recommendationType) pair.
C2_AtMostOneActive ==
    \A i, j \in 1..Len(recs) :
        (i < j /\ SamePair(recs[i], recs[j]))
            => ~(recs[i].status \in Active /\ recs[j].status \in Active)

\* C3 (one per type per run): the recommendations one engine run inserts
\* hold at most one per (resourceId, recommendationType), however many
\* usage records of the resource the window holds.
C3_OnePerTypePerRun ==
    [][\A i, j \in Added :
          (/\ SamePair(recs'[i], recs'[j])
           /\ Measured(usage[recs'[i].usageId])
           /\ Measured(usage[recs'[j].usageId])) => i = j]_vars

\* C4 (unknown-data safety): no instance-downgrade recommendation comes from
\* a usage record that syncEC2Data wrote with zero CPUUtilization datapoints.
C4_NoDowngradeWithoutSamples ==
    \A k \in 1..Len(recs) :
        recs[k].recommendationType = "instance-downgrade"
            => ~(usage[recs[k].usageId].writer = "syncEC2Data"
                 /\ usage[recs[k].usageId].dataPoints = 0)

\* A route's save of a loaded document is turned down: the stored
\* document stays as it is and the route answers 409.
Rejected(req) ==
    /\ recs'[req.id] = recs[req.id]
    /\ resp'.outcome = "409"

\* C5 (implement after dismiss): an implement request for a recommendation
\* whose status is dismissed is answered with a conflict at once, and no
\* save of such a request changes the stored document.
C5_ImplementDismissedFails ==
    [][/\ \A id \in 1..Len(recs) :
            (recs[id].status = "dismissed" /\ ImplementFind(id, recs[id].userId))
                => (resp'.op = "implement" /\ resp'.outcome = "409"
                    /\ inflight' = inflight)
       /\ \A req \in inflight :
            (ImplementSave(req) /\ req.doc[1].status = "dismissed")
                => Rejected(req)]_vars

\* C6 (terminality): a recommendation whose status is implemented, dismissed
\* or failed keeps that status in every later state.
C6_TerminalIsFinal ==
    [][\A k \in 1..Len(recs) :
          recs[k].status \in Terminal => recs'[k].status = recs[k].status]_vars

\* C7 (dismiss needs a reason): a dismiss request whose reason is missing or
\* empty is answered 400 in its first step, without being suspended at a
\* store call and without changing any recommendation; so no suspended
\* dismiss request and no stored dismissal carries such a reason.
C7_DismissNeedsReason ==
    /\ [](/\ \A req \in inflight : req.op = "dismiss" => ~IsFalsy(req.reason)
          /\ \A k \in 1..Len(recs) :
                recs[k].status = "dismissed" => ~IsFalsy(recs[k].dismissalReason)
          /\ (resp.op = "dismiss" /\ IsFalsy(resp.reason)) => resp.outcome = "400")
    /\ [][\A id \in 1..MaxRecs : \A u \in Users : \A r \in Reasons :
             (IsFalsy(r) /\ DismissFind(id, u, r))
                 => (/\ resp' = Response("dismiss", "400", r, 0, FALSE)
                     /\ UNCHANGED <<recs, inflight, usage>>)]_vars

\* C7's case: a pending recommendation is in the store and a dismiss request
\* with an empty reason has just been answered.
C7_Witness ==
    /\ resp.op = "dismiss" /\ resp.reason = "" /\ resp.outcome = "400"
    /\ \E k \in 1..Len(recs) : recs[k].status = "pending"

\* C8 (implement races dismiss): when an implement and a dismiss request
\* both loaded a recommendation as pending, the save that reaches the store
\* second is turned down instead of overwriting the status the first set.
C8_LoserIsRejected ==
    [][\A req \in inflight :
          (/\ \/ ImplementSave(req) /\ recs[req.id].status = "dismissed"
              \/ DismissSave(req) /\ recs[req.id].status = "implemented"
           /\ req.doc[1].status = "pending")
              => Rejected(req)]_vars

\* C9 (overlapping runs): when an engine run inserts after another run
\* inserted since it read, the two runs' recommendations hold no two pending
\* ones of the same (resourceId, recommendationType).
C9_OverlapKeepsOnePending ==
    [][\A req \in inflight :
          (GenInsert(req) /\ AllMeasured(req.snap))
              => \A i \in (req.seen + 1)..Len(recs) : \A j \in Added :
                    ~(/\ SamePair(recs'[i], recs'[j])
                      /\ recs'[i].status = "pending"
                      /\ recs'[j].status = "pending")]_vars

\* The usage records of a snapshot whose evaluation throws.
Failing(snap) ==
    {k \in 1..Len(snap) : snap[k].service = "EC2" /\ EC2RuleThrows(snap[k])}

\* The recommendations due to the records of a run's snapshot that belong to
\* other resources than the records whose evaluation throws.
DueToOthers(req) ==
    Recommendations(req.userId, req.awsAccountId, SelectSeq(req.snap,
        LAMBDA u : \A k \in Failing(req.snap) : req.snap[k].resourceId # u.resourceId))

\* C10 (failure isolation): an engine run over a usage record whose
\* evaluation raises does not throw, and it inserts the recommendations
\* due to the other resources' records it read.
C10_OneBadRecordIsIsolated ==
    [][\A req \in inflight :
          (/\ GenInsert(req)
           /\ Failing(req.snap) # {}
           /\ DueToOthers(req) # <<>>)
              => (/\ resp'.outcome = "ok"
                  /\ Cardinality(Added) >= Len(DueToOthers(req)))]_vars

\* The usage records of the store that carry a (userId, awsAccountId) pair.
OwnUsage(userId, awsAccountId) ==
    SelectSeq(usage, LAMBDA u : u.userId = userId /\ u.awsAccountId = awsAccountId)

\* C11 (tenant isolation): what an engine run reads is what it would read
\* from a store holding the usage records of its own (userId, awsAccountId)
\* alone, every record it reads carries that pair, and every recommendation
\* it inserts carries that pair and comes from a usage record of that pair.
C11_TenantIsolation ==
    [][/\ \A t \in Tenants :
            GenFind(t[1], t[2]) =>
                \A req \in inflight' \ inflight :
                    /\ req.snap = RecentUsage(OwnUsage(t[1], t[2]), t[1], t[2], now)
                    /\ \A k \in 1..Len(req.snap) :
                          /\ req.snap[k].userId = t[1]
                          /\ req.snap[k].awsAccountId = t[2]
       /\ \A req \in inflight :
            GenInsert(req) =>
                \A j \in Added :
                    /\ recs'[j].userId = req.userId
                    /\ recs'[j].awsAccountId = req.awsAccountId
                    /\ usage[recs'[j].usageId].userId = req.userId
                    /\ usage[recs'[j].usageId].awsAccountId = req.awsAccountId]_vars

\* C11's case: a run inserted a recommendation while the window also held
\* a usage record of another tenant that fires the EC2 rule.
C11_Witness ==
    \E j \in 1..Len(recs) : \E k \in 1..Len(usage) :
        /\ k < recs[j].usageId
        /\ usage[k].userId # recs[j].userId
        /\ usage[k].date = usage[recs[j].usageId].date
        /\ usage[k].service = "EC2" /\ EC2RuleFires(usage[k])

\* A route turns a request down with an HTTP status: it is not suspended at
\* a store call and no recommendation changes.
TurnedDown(op, outcome) ==
    /\ resp'.op = op /\ resp'.outcome = outcome
    /\ UNCHANGED <<recs, inflight>>

\* The request names a stored recommendation of another user.
Foreign(id, userId) == id \in 1..Len(recs) /\ recs[id].userId # userId

C13_SavingsNonNegative ==
    \A k \in 1..Len(recs) : recs[k].estimatedSavings >= 0

\* C13's case: the engine created an EC2 and an S3 recommendation.
C13_Witness ==
    \E j, k \in 1..Len(recs) :
        /\ recs[j].recommendationType = "instance-downgrade"
        /\ recs[k].recommendationType = "storage-class-change"
        /\ recs[j].estimatedSavings > 0 /\ recs[k].estimatedSavings > 0

\* The usage records a step's new recommendations of a type come from.
AddedFrom(recommendationType) ==
    {recs'[j].usageId : j \in {i \in Added : recs'[i].recommendationType = recommendationType}}

\* The number of recommendations of a type a step added.
AddedOf(recommendationType) ==
    Cardinality({i \in Added : recs'[i].recommendationType = recommendationType})

\* An EC2 usage record of a running instance whose stored CPU average is a
\* number strictly below 20.
Idle(u) ==
    /\ u.service = "EC2" /\ u.status = "running"
    /\ u.cpuType = "number" /\ u.cpuAverage < 20

Large(u) ==
    /\ u.service = "S3" /\ u.storageClass = "Standard"
    /\ u.sizeType = "number" /\ u.storageSize > 100 * 1024

\* C15 (S3 tier-change rule): an engine run inserts one storage-class-change
\* recommendation for each S3 usage record it read that is of class Standard
\* with a stored size strictly above 100 GB, and none for any other record;
\* the estimatedSavings.amount of each is 0.4 times the record's cost, so a
\* cost of 20 USD gives savings of 8 USD.
C15_S3TierChangeRule ==
    /\ [][\A req \in inflight :
             GenInsert(req) =>
                 /\ AddedFrom("storage-class-change")
                        = {req.snap[k]._id : k \in {i \in 1..Len(req.snap) : Large(req.snap[i])}}
                 /\ AddedOf("storage-class-change")
                        = Cardinality({i \in 1..Len(req.snap) : Large(req.snap[i])})
                 /\ \A j \in Added :
                       recs'[j].recommendationType = "storage-class-change"
                           => /\ 10 * recs'[j].estimatedSavings = 4 * usage[recs'[j].usageId].cost
                              /\ recs'[j].currentCost = usage[recs'[j].usageId].cost]_vars
    /\ [](S3Recommendation("u1", "a1",
              [S3Usage("u1", "a1", 0, "b-1", 250 * 1024) EXCEPT !.cost = 200000] @@ [_id |-> 1]
          ).estimatedSavings = 80000)

\* C15's case: a run that read a Standard bucket record of 250 GB and one of
\* exactly 100 GB created a recommendation for the first alone.
C15_Witness ==
    /\ resp.op = "generateRecommendations" /\ resp.outcome = "ok"
    /\ \E j \in 1..Len(recs) : \E k \in 1..Len(usage) :
          /\ recs[j].recommendationType = "storage-class-change"
          /\ usage[recs[j].usageId].storageSize = 250 * 1024
          /\ k < recs[j].usageId
          /\ usage[k].date = usage[recs[j].usageId].date
          /\ usage[k].service = "S3" /\ usage[k].storageClass = "Standard"
          /\ usage[k].sizeType = "number" /\ usage[k].storageSize = 100 * 1024
          /\ \A i \in 1..Len(recs) : recs[i].usageId # k

\* The priority table: critical when the savings exceed half of the current
\* cost at low risk, high when they exceed 0.3 of it, medium otherwise.
TablePriority(rec) ==
    IF 10 * rec.estimatedSavings > 5 * rec.currentCost /\ rec.riskLevel = "low"
    THEN "critical"
    ELSE IF 10 * rec.estimatedSavings > 3 * rec.currentCost THEN "high"
    ELSE "medium"

\* C16 (priority table): every recommendation the engine stored for a
\* measured usage record has the priority the table gives for its savings
\* fraction and risk level; the EC2 downsize (50%) and the S3 tier change
\* (40%) are both high.
C16_PriorityFollowsTable ==
    \A k \in 1..Len(recs) :
        Measured(usage[recs[k].usageId]) => recs[k].priority = TablePriority(recs[k])

\* C17 (never low): no recommendation the engine stored for a measured
\* usage record has priority low.
C17_NeverLowPriority ==
    \A k \in 1..Len(recs) :
        Measured(usage[recs[k].usageId])
            => recs[k].priority \in {"medium", "high", "critical"}

\* An RDS usage record of an available instance whose connection average
\* was taken over at least one datapoint and is 0: below every threshold.
Quiet(u) ==
    /\ u.service = "RDS" /\ u.status = "available"
    /\ u.dataPoints > 0 /\ u.connType = "number" /\ u.connAverage = 0

\* C18 (RDS downsize rule): an engine run inserts, for every RDS usage
\* record it read of an available instance with a known connection average
\* below the threshold, an instance-downgrade recommendation whose
\* estimatedSavings.amount is half of the record's cost.
C18_RDSDownsizeRule ==
    [][\A req \in inflight :
          GenInsert(req) =>
              \A k \in 1..Len(req.snap) :
                  Quiet(req.snap[k]) =>
                      \E j \in Added :
                          /\ recs'[j].usageId = req.snap[k]._id
                          /\ recs'[j].recommendationType = "instance-downgrade"
                          /\ 2 * recs'[j].estimatedSavings = req.snap[k].cost]_vars

\* C19 (engine after each sync): when a POST /sync request that passed the
\* account lookup has attempted its services, it runs the engine once, and
\* unless the engine's evaluation raises, the response carries
\* recommendationsGenerated and no Recommendations entry in errors.
C19_SyncRunsEngineOnce ==
    [][\A req \in inflight :
          SyncRecommend(req) =>
              /\ resp'.engineCalls = 1
              /\ ~EvaluationThrows(RecentUsage(usage, req.userId, req.awsAccountId, now))
                    => (resp'.hasGenerated /\ "Recommendations" \notin resp'.errors)]_vars

\* An instance a sync observed running with a CPU average, taken over at
\* least one datapoint, below 20.
IdleObserved(instance) ==
    /\ instance.State = "running"
    /\ Len(instance.Datapoints) > 0
    /\ SumSeq(instance.Datapoints) < 20 * Len(instance.Datapoints)

\* C20 (enhanced sync to engine): the engine run that follows a
\* syncEC2DataEnhanced which observed a running instance with a CPU average
\* below 20% inserts an instance-downgrade recommendation for that instance.
C20_EnhancedSyncFeedsEngine ==
    [][\A req \in inflight :
          (GenInsert(req) /\ resp.op = "syncEC2DataEnhanced") =>
              \A i \in 1..Len(resp.observed) :
                  IdleObserved(resp.observed[i]) =>
                      \E j \in Added :
                          /\ recs'[j].resourceId = resp.observed[i].InstanceId
                          /\ recs'[j].recommendationType = "instance-downgrade"]_vars

\* C21 (lookback window): every recommendation an engine run inserts comes
\* from a usage record dated within the 7 days before the run and not after
\* the run.
C21_WindowOnly ==
    [][\A req \in inflight :
          GenInsert(req) =>
              \A j \in Added :
                  /\ usage[recs'[j].usageId].date >= now - 7
                  /\ usage[recs'[j].usageId].date <= now]_vars

\* The compute resources the store knows for a run's tenant from records
\* older than the window, of which the window holds no usage record and the
\* run read none.
WithoutUsage(req) ==
    {usage[k].resourceId : k \in {i \in 1..Len(usage) :
        /\ usage[i].service = "EC2"
        /\ usage[i].userId = req.userId /\ usage[i].awsAccountId = req.awsAccountId
        /\ usage[i].date < now - 7
        /\ \A m \in 1..Len(usage) :
              (usage[m].date >= now - 7) => usage[m].resourceId # usage[i].resourceId
        /\ \A m \in 1..Len(req.snap) : req.snap[m].resourceId # usage[i].resourceId}}

\* C22 (zero-data scenario): an engine run that read no usage record of a
\* compute resource inserts no recommendation for it, does not throw, and
\* its result counts the resource as skipped.
C22_NoDataIsSkippedAndCounted ==
    [][\A req \in inflight :
          (GenInsert(req) /\ WithoutUsage(req) # {}) =>
              /\ \A j \in Added : recs'[j].resourceId \notin WithoutUsage(req)
              /\ resp'.outcome = "ok"
              /\ "skipped" \in DOMAIN resp'
              /\ resp'.skipped >= Cardinality(WithoutUsage(req))]_vars

\* The price tables as the source lists them: <<class, rate>> per estimator.
PriceList(fn) ==
    CASE fn = "estimateEC2Cost" ->
           {<<"t3.micro", 104>>, <<"t3.small", 208>>, <<"t3.medium", 416>>,
            <<"m5.large", 960>>, <<"c5.large", 850>>}
      [] fn = "estimateRDSCost" ->
           {<<"db.t3.micro", 170>>, <<"db.t3.small", 340>>, <<"db.m5.large", 1710>>}
      [] fn = "estimateEC2CostEnhanced" ->
           {<<"t3.nano", 52>>, <<"t3.micro", 104>>, <<"t3.small", 208>>, <<"t3.medium", 416>>,
            <<"t3.large", 832>>, <<"m5.large", 960>>, <<"m5.xlarge", 1920>>,
            <<"c5.large", 850>>, <<"c5.xlarge", 1700>>, <<"r5.large", 1260>>,
            <<"r5.xlarge", 2520>>}
      [] fn = "estimateRDSCostEnhanced" ->
           {<<"db.t3.micro", 170>>, <<"db.t3.small", 340>>, <<"db.t3.medium", 680>>,
            <<"db.m5.large", 1710>>, <<"db.m5.xlarge", 3420>>, <<"db.r5.large", 2160>>,
            <<"db.r5.xlarge", 4320>>}

\* C23 (cost estimator): an estimator returns 0 for a resource that is not
\* active, the listed rate for a class of its price table, and the default
\* rate 0.1 USD/h for any other class.
C23_EstimatorTotal ==
    resp.op = "estimate" =>
        /\ ~resp.isRunning => resp.amount = 0
        /\ resp.isRunning =>
              /\ \A p \in PriceList(resp.fn) : p[1] = resp.class => resp.amount = p[2]
              /\ (\A p \in PriceList(resp.fn) : p[1] # resp.class) =>
                     resp.amount = DefaultHourlyCost

\* A stopped database of a listed class has been priced.
C23_Witness ==
    /\ resp.op = "estimate"
    /\ resp.fn = "estimateRDSCost"
    /\ resp.class = "db.m5.large"
    /\ ~resp.isRunning

\* C24 (cost source preference): the savings of an instance-downgrade
\* recommendation for a running instance are half of the cost the usage
\* record reports, or half of the estimator's cost for the instance type when
\* the record's cost is zero.
C24_ZeroCostFallsBackToEstimator ==
    [][\A k \in Added :
          LET u == usage[recs'[k].usageId]
          IN (recs'[k].recommendationType = "instance-downgrade" /\ u.status = "running") =>
                recs'[k].estimatedSavings =
                    (IF u.cost = 0 THEN (estimateEC2Cost(u.instanceType, TRUE) * 5) \div 10
                     ELSE (u.cost * 5) \div 10)]_vars

\* The step is one of an engine run: its find is issued or its insertMany lands.
EngineStep ==
    \/ \E req \in inflight' \ inflight : req.op = "generateRecommendations"
    \/ \E req \in inflight \ inflight' : req.op = "generateRecommendations"

\* The step is the save of an implement or dismiss request for recommendation k.
LifecycleSaveOf(k) ==
    \E req \in inflight \ inflight' : req.op \in {"implement", "dismiss"} /\ req.id = k

\* C25 (frame of evaluation): a step of an engine run leaves the usage store
\* and every stored recommendation as they were; a stored recommendation is
\* never removed, and it changes only in the save of an implement or dismiss
\* request for it.
C25_EngineFrame ==
    [][/\ Len(recs') >= Len(recs)
       /\ EngineStep =>
             /\ usage' = usage
             /\ \A k \in 1..Len(recs) : recs'[k] = recs[k]
       /\ \A k \in 1..Len(recs) : recs'[k] # recs[k] => LifecycleSaveOf(k)]_vars

\* An engine run has just inserted a second recommendation next to one that
\* was implemented or dismissed before.
C25_Witness ==
    /\ resp.op = "generateRecommendations" /\ resp.generated = 1
    /\ Len(recs) = 2
    /\ recs[1].status \in {"implemented", "dismissed"}
    /\ recs[2].status = "pending"

\* The stamps a status stands for are on the document.
Stamped(doc) ==
    /\ doc.status = "implemented" =>
          doc.implementedAt # NoDate /\ doc.implementedBy # NoUser
    /\ doc.status = "dismissed" =>
          /\ doc.dismissedAt # NoDate /\ doc.dismissedBy # NoUser
          /\ ~IsFalsy(doc.dismissalReason)

\* C26 (audit stamps): a recommendation is created pending; one whose status
\* is implemented carries implementedAt and implementedBy, and one whose
\* status is dismissed carries dismissedAt, dismissedBy and a non-empty
\* dismissalReason.
C26_StampsFollowStatus ==
    /\ [](\A k \in 1..Len(recs) : Stamped(recs[k]))
    /\ [][\A k \in Added : recs'[k].status = "pending"]_vars

\* A recommendation that was implemented has been dismissed afterwards, and
\* the route answered 200.
C26_Witness ==
    /\ resp.op = "dismiss" /\ resp.outcome = "200"
    /\ Len(recs) >= 1
    /\ recs[1].status = "dismissed"
    /\ recs[1].implementedAt # NoDate

\* The rank of a priority in the order critical > high > medium > low.
PriorityRank(priority) ==
    CASE priority = "critical" -> 4
      [] priority = "high" -> 3
      [] priority = "medium" -> 2
      [] priority = "low" -> 1

\* C27 (list ordering): the recommendations of a list response come by
\* priority from critical down to low, and by savings amount descending
\* among equal priorities.
C27_ListByPriorityThenSavings ==
    resp.op = "list" =>
        \A i, j \in 1..Len(resp.recommendations) :
            i < j =>
                LET a == resp.recommendations[i]
                    b == resp.recommendations[j]
                IN \/ PriorityRank(a.priority) > PriorityRank(b.priority)
                   \/ /\ a.priority = b.priority
                      /\ a.estimatedSavings >= b.estimatedSavings

\* The sum of the counts the entries of syncedServices carry.
RECURSIVE SumCounts(_, _)
SumCounts(counts, services) ==
    IF services = {} THEN 0
    ELSE LET s == CHOOSE x \in services : TRUE
         IN counts[s] + SumCounts(counts, services \ {s})

\* C28 (sync orchestration): in the body of a completed POST /sync every
\* requested service is in exactly one of syncedServices and errors, whatever
\* happened to the services before it; the recommendation step was attempted
\* (its count or its error is in the body); totalResourcesSynced is the sum
\* of the counts of the synced services; and success is false exactly when
\* errors is non-empty and syncedServices is empty.
C28_SyncOrchestration ==
    (resp.op = "sync" /\ resp.outcome = "200") =>
        /\ \A s \in resp.requested : (s \in resp.syncedServices) # (s \in resp.errors)
        /\ resp.syncedServices \subseteq resp.requested
        /\ resp.hasGenerated \/ "Recommendations" \in resp.errors
        /\ DOMAIN resp.counts = resp.syncedServices
        /\ resp.totalResourcesSynced = SumCounts(resp.counts, resp.syncedServices)
        /\ ~resp.success <=> (resp.errors # {} /\ resp.syncedServices = {})

\* A sync of three services has answered: EC2 failed, S3 and RDS were still
\* synced.
C28_Witness ==
    /\ resp.op = "sync" /\ resp.outcome = "200"
    /\ resp.requested = {"EC2", "S3", "RDS"}
    /\ "EC2" \in resp.errors
    /\ resp.syncedServices = {"S3", "RDS"}

\* C29 (no credential carry-over): a client requested with credentials is
\* built under the access key pair of these credentials, and a client
\* requested without credentials is built under no access key that an
\* earlier call supplied for an account.
C29_NoCredentialCarryOver ==
    resp.op = "getClient" =>
        /\ resp.credentials # NoCredentials =>
              /\ resp.client.accessKeyId = resp.credentials.accessKeyId
              /\ resp.client.secretAccessKey = resp.credentials.secretAccessKey
        /\ resp.credentials = NoCredentials =>
              resp.client.accessKeyId \notin {CredentialsOf(t[2]).accessKeyId : t \in Tenants}

\* C30 (unique access keys): no two accounts of a user's awsAccounts carry
\* the same accessKeyId, and an add or update answered 400 leaves the list as
\* it was.
C30_UniqueAccessKeys ==
    /\ [](\A u \in Users :
            \A i, j \in 1..Len(awsAccounts[u].accounts) :
                i # j => awsAccounts[u].accounts[i].accessKeyId
                            # awsAccounts[u].accounts[j].accessKeyId)
    /\ [][(resp'.op \in {"addAccount", "updateAccount"} /\ resp'.outcome = "400")
             => UNCHANGED awsAccounts]_vars

====
